---- MODULE Spec2Model ----
(***************************************************************************)
(* Model of src/clustering/table_raft/leader.cc: calculate_contract(), the *)
(* function the table's Raft leader applies to one homogeneous key range   *)
(* to turn the old contract, the shard configuration and the contract acks *)
(* into the next contract.  The state machine is the leader's loop for one *)
(* region: it re-runs calculate_contract() on the contract it published    *)
(* last, with whatever configuration and acks are current.                 *)
(***************************************************************************)
EXTENDS Integers, Sequences, FiniteSets, TLC

MaxTimestamp == 1
MaxBranchDepth == 1

(* server_id_t: the servers of the cluster, ordered as their ids are.      *)
Servers == {1, 2, 3}

(* state_timestamp_t.                                                      *)
Timestamps == 0..MaxTimestamp

(* boost::optional<T>: the empty set is boost::none, {x} holds x.          *)
None == {}
Some(x) == {x}
Get(opt) == CHOOSE x \in opt : TRUE

(* contract_ack_t::state_t, with "no_ack" for a server that has no entry   *)
(* in the ack_states map.                                                  *)
AckStates ==
    {"no_ack", "secondary_streaming", "secondary_need_primary",
     "primary_ready", "primary_need_branch"}

(***************************************************************************)
(* Branch history.  A branch id is the sequence of the timestamps at which *)
(* its ancestors and itself were started: <<>> is the root branch, and the *)
(* branch started from version [branch |-> b, timestamp |-> t] is          *)
(* Append(b, t).  The ancestry of a branch is the set of its prefixes.     *)
(***************************************************************************)
RootBranch == <<>>

BranchOrigin(b) == IF b = <<>> THEN 0 ELSE b[Len(b)]

Ancestry(b) == {SubSeq(b, 1, n) : n \in 0..Len(b)}

(* The versions a replica can report under a contract on branch b.         *)
VersionsOn(b) ==
    {[branch |-> a, timestamp |-> t] :
        a \in Ancestry(b), t \in Timestamps} \
    {v \in [branch : Ancestry(b), timestamp : Timestamps] :
        v.timestamp < BranchOrigin(v.branch)}

Min(a, b) == IF a <= b THEN a ELSE b

(* version_project_to_branch(): the position of `version` on the path from *)
(* the root to `branch`.  A version on an ancestor that lies past the      *)
(* point where the path left that ancestor projects to that point.         *)
version_project_to_branch(version, branch) ==
    IF version.branch = branch
        THEN version.timestamp
        ELSE Min(version.timestamp, branch[Len(version.branch) + 1])

(* branch_maker(server, version): a new branch starting at `version`.      *)
branch_maker(server, version) == Append(version.branch, version.timestamp)

(***************************************************************************)
(* Values of the model's types.                                            *)
(***************************************************************************)
(* One server's entries in the three ack maps: its state in ack_states     *)
(* ("no_ack" for none), and its entries in ack_versions and ack_branches   *)
(* as optionals, None for a server the map has no entry for.               *)
NoAck == [state |-> "no_ack", version |-> None, branch |-> None]

(* std::map::at() for a key the map has no entry for: the exception that   *)
(* ends calculate_contract() at the given line.                            *)
OutOfRange(line) == [exception |-> "std::out_of_range", line |-> line]

(* The outcome of a call is an exception, not a returned contract.         *)
Threw(outcome) == "exception" \in DOMAIN outcome

(* The branch a primary on branch b registers when it asks for one.        *)
ProposedBranch(b) == Append(b, MaxTimestamp)

(* One server's entries in ack_states, ack_versions and ack_branches for a *)
(* contract on branch b.  The three maps are separate parameters: a server *)
(* that needs a primary comes with or without an entry in ack_versions, a  *)
(* primary that needs a branch with or without one in ack_branches.        *)
AckValues(b) ==
    {NoAck}
    \cup {[state |-> st, version |-> None, branch |-> None] :
            st \in {"secondary_streaming", "primary_ready"}}
    \cup {[state |-> "secondary_need_primary", version |-> v,
           branch |-> None] :
            v \in {None} \cup {Some(w) : w \in VersionsOn(b)}}
    \cup {[state |-> "primary_need_branch", version |-> None,
           branch |-> br] : br \in {None, Some(ProposedBranch(b))}}

(* table_config_t::shard_t: a replica set and a primary replica.  No       *)
(* statement of calculate_contract() requires the primary replica to be    *)
(* one of the replicas, or the replica set to have a member.               *)
Configs == [replicas : SUBSET Servers, primary_replica : Servers]

(* The contract a region starts with, synthesized from its shard           *)
(* configuration alone.                                                    *)
SeedContract(cfg) ==
    [replicas    |-> cfg.replicas,
     voters      |-> cfg.replicas,
     temp_voters |-> None,
     primary     |-> None,
     branch      |-> RootBranch]

(***************************************************************************)
(* calculate_contract(), statement by statement.  old_c is the parameter,  *)
(* new_c the local copy that is returned.                                  *)
(***************************************************************************)
HasAck(acks, s) == acks[s].state # "no_ack"

IsPrimaryOf(c, s) == c.primary # None /\ Get(c.primary).server = s

(* Lines 32-36 with the test of line 33 inverted: nothing is inserted.     *)
GrowReplicasInverted(new_c, config) == new_c

(* Lines 32-36: add the servers of config.replicas to new_c.replicas.      *)
GrowReplicas(new_c, config) ==
    [new_c EXCEPT !.replicas = new_c.replicas \cup config.replicas]

(* Lines 41-50 without the second disjunct of lines 46-47: the primary is  *)
(* not counted.                                                            *)
NumStreamingNoPrimary(old_c, config, acks) ==
    Cardinality({server \in config.replicas :
        /\ HasAck(acks, server)
        /\ acks[server].state = "secondary_streaming"})

(* Lines 41-50: num_streaming.                                             *)
NumStreaming(old_c, config, acks) ==
    Cardinality({server \in config.replicas :
        /\ HasAck(acks, server)
        /\ \/ acks[server].state = "secondary_streaming"
           \/ IsPrimaryOf(old_c, server)})

(* Line 40 without the comparison of the voters with config.replicas.      *)
VotersMismatchAlways(old_c, config) ==
    old_c.temp_voters = None

(* Line 40.                                                                *)
VotersMismatch(old_c, config) ==
    old_c.temp_voters = None /\ old_c.voters # config.replicas

(* Line 55 with >= for >.                                                  *)
MajorityStreamingOrHalf(num_streaming, config) ==
    num_streaming >= Cardinality(config.replicas) \div 2

(* Line 55.                                                                *)
MajorityStreaming(num_streaming, config) ==
    num_streaming > Cardinality(config.replicas) \div 2

(* Lines 40-59: initiate a voter change.                                   *)
InitiateVoterChange(old_c, new_c, config, acks) ==
    IF /\ VotersMismatch(old_c, config)
       /\ MajorityStreaming(NumStreaming(old_c, config, acks), config)
        THEN [new_c EXCEPT !.temp_voters = Some(config.replicas)]
        ELSE new_c

(* Line 63 reading the local copy instead of old_c.                        *)
VoterChangeInitiatedInNew(old_c, new_c) == new_c.temp_voters # None

(* Line 63.                                                                *)
VoterChangeInitiated(old_c, new_c) == old_c.temp_voters # None

(* Lines 71-73 accepting any ack of the primary.                           *)
PrimaryIsReadyAnyAck(old_c, acks) ==
    /\ old_c.primary # None
    /\ HasAck(acks, Get(old_c.primary).server)

(* Lines 71-73.                                                            *)
PrimaryIsReady(old_c, acks) ==
    /\ old_c.primary # None
    /\ HasAck(acks, Get(old_c.primary).server)
    /\ acks[Get(old_c.primary).server].state = "primary_ready"

(* Lines 63-78: commit a voter change.                                     *)
CommitVoterChange(old_c, new_c, acks) ==
    IF VoterChangeInitiated(old_c, new_c) /\ PrimaryIsReady(old_c, acks)
        THEN [new_c EXCEPT !.voters = Get(new_c.temp_voters),
                           !.temp_voters = None]
        ELSE new_c

(* Lines 85-88 without the test of old_c.temp_voters.                      *)
IsStaleIgnoringTempVoters(old_c, config, server) ==
    /\ server \notin config.replicas
    /\ server \notin old_c.voters

(* Lines 85-88 without the test of old_c.voters.                           *)
IsStaleIgnoringVoters(old_c, config, server) ==
    /\ server \notin config.replicas
    /\ (old_c.temp_voters = None \/ server \notin Get(old_c.temp_voters))

(* Lines 85-88: the server is in neither config.replicas, old_c.voters nor *)
(* old_c.temp_voters.                                                      *)
IsStale(old_c, config, server) ==
    /\ server \notin config.replicas
    /\ server \notin old_c.voters
    /\ (old_c.temp_voters = None \/ server \notin Get(old_c.temp_voters))

(* Lines 83-91: should_kill_primary after the loop over old_c.replicas.    *)
PrimaryIsStale(old_c, config) ==
    \E server \in old_c.replicas :
        IsStale(old_c, config, server) /\ IsPrimaryOf(old_c, server)

(* Lines 84-96: erase the stale servers that are not primary.              *)
RemoveStaleReplicas(old_c, new_c, config) ==
    [new_c EXCEPT !.replicas = new_c.replicas \
        {server \in old_c.replicas :
            IsStale(old_c, config, server) /\ ~IsPrimaryOf(old_c, server)}]

(* std::pair's operator<: by timestamp, then by server id.                 *)
PairLess(a, b) ==
    \/ a.timestamp < b.timestamp
    \/ a.timestamp = b.timestamp /\ a.server < b.server

(* Line 117: ack_versions.at(server) throws for a voter that needs a       *)
(* primary and has no entry in ack_versions.                               *)
VersionMissing(new_c, acks) ==
    \E server \in new_c.voters :
        /\ HasAck(acks, server)
        /\ acks[server].state = "secondary_need_primary"
        /\ acks[server].version = None

(* Lines 112-120: replica_states before it is sorted, filled in the        *)
(* iteration order of the std::set new_c.voters (ascending server id),     *)
(* when every ack_versions.at() of line 117 finds its entry.               *)
RECURSIVE CollectReplicaStates(_, _, _, _)
CollectReplicaStates(voters, old_c, acks, replica_states) ==
    IF voters = {} THEN replica_states
    ELSE LET server == CHOOSE s \in voters : \A t \in voters : s <= t
             rest == voters \ {server}
         IN IF HasAck(acks, server)
               /\ acks[server].state = "secondary_need_primary"
              THEN CollectReplicaStates(rest, old_c, acks,
                     Append(replica_states,
                       [timestamp |-> version_project_to_branch(
                                         Get(acks[server].version),
                                         old_c.branch),
                        server |-> server]))
              ELSE CollectReplicaStates(rest, old_c, acks, replica_states)

(* Insert pair p into the sorted sequence s.                               *)
RECURSIVE InsertSorted(_, _)
InsertSorted(s, p) ==
    IF s = <<>> THEN <<p>>
    ELSE IF PairLess(p, Head(s)) THEN <<p>> \o s
    ELSE <<Head(s)>> \o InsertSorted(Tail(s), p)

(* Line 121 left out: replica_states stays in insertion order.             *)
SortReplicaStatesLeftOut(replica_states) == replica_states

(* Line 121: std::sort(replica_states.begin(), replica_states.end()).      *)
RECURSIVE SortReplicaStates(_)
SortReplicaStates(replica_states) ==
    IF replica_states = <<>> THEN <<>>
    ELSE InsertSorted(SortReplicaStates(Tail(replica_states)),
                      Head(replica_states))

(* Line 127 with the bound rounded the other way: (size - 1) / 2.  With no *)
(* voter there is no index to start at, and the loop does not run.         *)
FirstEligibleIndexRoundedDown(voters) ==
    IF voters = {} THEN 0 ELSE (Cardinality(voters) - 1) \div 2

(* Line 127: the first index (0-based) the selection loop looks at.        *)
FirstEligibleIndex(voters) == Cardinality(voters) \div 2

(* Lines 127-132 without the break of line 130: the loop runs to the end.  *)
SelectLoopNoBreak(replica_states, i, config, new_primary) ==
    IF i < Len(replica_states)
        THEN Some(replica_states[Len(replica_states)].server)
        ELSE new_primary

(* Lines 127-132: the selection loop from 0-based index i on, new_primary  *)
(* being the value the loop has assigned so far.                           *)
RECURSIVE SelectLoop(_, _, _, _)
SelectLoop(replica_states, i, config, new_primary) ==
    IF i < Len(replica_states)
        THEN IF replica_states[i + 1].server = config.primary_replica
                THEN Some(replica_states[i + 1].server)
                ELSE SelectLoop(replica_states, i + 1, config,
                                Some(replica_states[i + 1].server))
        ELSE new_primary

(* Lines 112-132 followed by a test that discards every new_primary other  *)
(* than config.primary_replica.                                            *)
NewPrimaryOnlyPreferred(old_c, new_c, config, acks) ==
    LET new_primary ==
            SelectLoop(
                SortReplicaStates(
                    CollectReplicaStates(new_c.voters, old_c, acks, <<>>)),
                FirstEligibleIndex(new_c.voters), config, None)
    IN IF new_primary = Some(config.primary_replica)
          THEN new_primary
          ELSE None

(* Lines 112-132: new_primary.                                             *)
NewPrimary(old_c, new_c, config, acks) ==
    SelectLoop(
        SortReplicaStates(CollectReplicaStates(new_c.voters, old_c, acks, <<>>)),
        FirstEligibleIndex(new_c.voters), config, None)

(* A variant of lines 143-150 that hands branch_maker the version acked    *)
(* by config.primary_replica, when ack_versions has one, instead of the    *)
(* one acked by new_primary.                                               *)
ElectPrimaryVersionOfPreferred(old_c, new_c, config, acks) ==
    IF old_c.primary = None
        THEN LET new_primary == NewPrimary(old_c, new_c, config, acks)
             IN IF new_primary # None
                  THEN [new_c EXCEPT
                          !.primary = Some([server |-> Get(new_primary),
                                            warm_shutdown |-> FALSE,
                                            hand_over |-> None]),
                          !.branch = branch_maker(Get(new_primary),
                            IF acks[config.primary_replica].version # None
                              THEN Get(acks[config.primary_replica].version)
                              ELSE Get(acks[Get(new_primary)].version))]
                  ELSE new_c
        ELSE new_c

(* Lines 102-151: choose a primary if there is none.                       *)
ElectPrimary(old_c, new_c, config, acks) ==
    IF old_c.primary = None
        THEN LET new_primary == NewPrimary(old_c, new_c, config, acks)
             IN IF new_primary # None
                  THEN [new_c EXCEPT
                          !.primary = Some([server |-> Get(new_primary),
                                            warm_shutdown |-> FALSE,
                                            hand_over |-> None]),
                          !.branch = branch_maker(Get(new_primary),
                                        Get(acks[Get(new_primary)].version))]
                  ELSE new_c
        ELSE new_c

(* Lines 176-182: voters_cant_reach_primary.                               *)
VotersCantReachPrimary(new_c, acks) ==
    Cardinality({server \in new_c.voters :
        HasAck(acks, server) /\ acks[server].state = "secondary_need_primary"})

(* Line 183 with >= in place of >: exactly half of the voters suffice.     *)
AutoFailoverAtHalf(new_c, acks) ==
    2 * VotersCantReachPrimary(new_c, acks) >= Cardinality(new_c.voters)

(* Line 183: the auto-failover condition.                                  *)
AutoFailover(new_c, acks) ==
    VotersCantReachPrimary(new_c, acks) > Cardinality(new_c.voters) \div 2

(* Lines 83-91 and 183-185: should_kill_primary at line 187.               *)
ShouldKillPrimary(old_c, new_c, config, acks) ==
    PrimaryIsStale(old_c, config) \/ AutoFailover(new_c, acks)

(* Lines 189-192: config.primary_replica is another server and streams.    *)
WantHandOver(old_c, config, acks) ==
    /\ Get(old_c.primary).server # config.primary_replica
    /\ HasAck(acks, config.primary_replica)
    /\ acks[config.primary_replica].state = "secondary_streaming"

(* Lines 197-200 without the test of old_c.primary->hand_over.             *)
HandOverDoneUnrequested(old_c, config, acks) ==
    /\ HasAck(acks, Get(old_c.primary).server)
    /\ acks[Get(old_c.primary).server].state = "primary_ready"

(* Lines 197-200: the hand-over was requested and the primary is ready.    *)
HandOverDone(old_c, config, acks) ==
    /\ Get(old_c.primary).hand_over = Some(config.primary_replica)
    /\ HasAck(acks, Get(old_c.primary).server)
    /\ acks[Get(old_c.primary).server].state = "primary_ready"

(* Lines 167-213 with a completed hand-over that installs                  *)
(* config.primary_replica as the primary at once instead of leaving the    *)
(* contract without one.                                                   *)
ReplacePrimaryDirectSwitch(old_c, new_c, config, acks) ==
    IF old_c.primary = None THEN new_c
    ELSE IF ShouldKillPrimary(old_c, new_c, config, acks)
        THEN [new_c EXCEPT !.primary = None]
    ELSE IF WantHandOver(old_c, config, acks)
        THEN IF HandOverDone(old_c, config, acks)
                THEN [new_c EXCEPT !.primary =
                        Some([server |-> config.primary_replica,
                              warm_shutdown |-> FALSE,
                              hand_over |-> None])]
                ELSE [new_c EXCEPT !.primary =
                        Some([Get(new_c.primary) EXCEPT
                                !.hand_over = Some(config.primary_replica)])]
    ELSE [new_c EXCEPT !.primary =
            Some([Get(new_c.primary) EXCEPT !.hand_over = None])]

(* Lines 167-213: remove or hand over the primary if there is one.         *)
ReplacePrimary(old_c, new_c, config, acks) ==
    IF old_c.primary = None THEN new_c
    ELSE IF ShouldKillPrimary(old_c, new_c, config, acks)
        THEN [new_c EXCEPT !.primary = None]
    ELSE IF WantHandOver(old_c, config, acks)
        THEN IF HandOverDone(old_c, config, acks)
                THEN [new_c EXCEPT !.primary = None]
                ELSE [new_c EXCEPT !.primary =
                        Some([Get(new_c.primary) EXCEPT
                                !.hand_over = Some(config.primary_replica)])]
    ELSE [new_c EXCEPT !.primary =
            Some([Get(new_c.primary) EXCEPT !.hand_over = None])]

(* Lines 216-220: an unchanged primary asks for a branch.                  *)
PrimaryNeedsBranch(old_c, new_c, acks) ==
    /\ old_c.primary # None
    /\ new_c.primary # None
    /\ Get(old_c.primary).server = Get(new_c.primary).server
    /\ HasAck(acks, Get(old_c.primary).server)
    /\ acks[Get(old_c.primary).server].state = "primary_need_branch"

(* Line 221: ack_branches.at(old_c.primary->server) throws for a primary   *)
(* that asks for a branch and has no entry in ack_branches.                *)
BranchMissing(old_c, new_c, acks) ==
    /\ PrimaryNeedsBranch(old_c, new_c, acks)
    /\ acks[Get(old_c.primary).server].branch = None

(* Lines 216-222, when ack_branches.at() finds its entry: the assignment   *)
(* of line 221 is to old_c.branch; new_c, the value line 224 returns, is   *)
(* left as it is.                                                          *)
RegisterBranch(old_c, new_c, acks) ==
    IF PrimaryNeedsBranch(old_c, new_c, acks)
        THEN [old_c |-> [old_c EXCEPT
                !.branch = Get(acks[Get(old_c.primary).server].branch)],
              new_c |-> new_c]
        ELSE [old_c |-> old_c, new_c |-> new_c]

(* Lines 10-225: one call of calculate_contract().  `returned` is the      *)
(* contract line 224 returns, or the std::out_of_range that                *)
(* ack_versions.at() throws at line 117 or ack_branches.at() at line 221;  *)
(* ack_versions.at() of line 149 looks up a server that line 117 has       *)
(* looked up already.  `old_c` is the caller's contract when the call      *)
(* ends: line 15 binds it by reference, and line 221 is the one statement  *)
(* that assigns to it.                                                     *)
CalculateContractCall(old_c, config, acks) ==
    LET c0 == old_c
        c1 == GrowReplicas(c0, config)
        c2 == InitiateVoterChange(old_c, c1, config, acks)
        c3 == CommitVoterChange(old_c, c2, acks)
        c4 == RemoveStaleReplicas(old_c, c3, config)
        c5 == ElectPrimary(old_c, c4, config, acks)
        c6 == ReplacePrimary(old_c, c5, config, acks)
    IN IF old_c.primary = None /\ VersionMissing(c4, acks)
          THEN [returned |-> OutOfRange(117), old_c |-> old_c,
                maker_calls |-> 0]
       ELSE LET maker_calls ==
                    IF old_c.primary = None /\ c5.primary # None
                        THEN 1 ELSE 0
            IN IF BranchMissing(old_c, c6, acks)
                  THEN [returned |-> OutOfRange(221), old_c |-> old_c,
                        maker_calls |-> maker_calls]
                  ELSE LET r == RegisterBranch(old_c, c6, acks)
                       IN [returned |-> r.new_c, old_c |-> r.old_c,
                           maker_calls |-> maker_calls]

(* The outcome of calculate_contract(): the value it returns, or the       *)
(* exception it throws.                                                    *)
calculate_contract(old_c, config, acks) ==
    CalculateContractCall(old_c, config, acks).returned

(* The number of calls of branch_maker in calculate_contract().            *)
BranchMakerCalls(old_c, config, acks) ==
    CalculateContractCall(old_c, config, acks).maker_calls

(* The servers whose entry in ack_states a call with old_c and config can  *)
(* look up: the servers of config.replicas when line 40 holds (line 43),   *)
(* the voters of new_c, which are voters of old_c or, after the commit of  *)
(* line 75, which needs a primary, its temp voters (lines 114 and 178),    *)
(* the primary of old_c (lines 72, 198 and 219) and, when old_c has a      *)
(* primary, config.primary_replica (line 190).                             *)
LookedUp(old_c, config) ==
    (IF VotersMismatch(old_c, config) THEN config.replicas ELSE {})
    \cup old_c.voters
    \cup (IF old_c.primary = None
            THEN {}
            ELSE UNION old_c.temp_voters
                 \cup {Get(old_c.primary).server, config.primary_replica})

(* The entries one server can have in the three ack maps for a call with   *)
(* contract c and configuration config.  Any server can have any state.    *)
(* ack_versions is read at lines 117 and 149 only, for a voter of a        *)
(* contract that has no primary; ack_branches at line 221 only, for the    *)
(* primary.  An entry that no statement of the call reads is not           *)
(* enumerated: the call is the same with and without it.                   *)
AcksOf(c, config, server) ==
    IF server \notin LookedUp(c, config) THEN {NoAck}
    ELSE {a \in AckValues(c.branch) :
            /\ a.version # None => c.primary = None /\ server \in c.voters
            /\ a.branch # None => IsPrimaryOf(c, server)}

(* Ack maps for contract c and configuration config over the servers 1..n. *)
RECURSIVE AckMapsOver(_, _, _)
AckMapsOver(c, config, n) ==
    IF n = 0 THEN {<<>>}
    ELSE {Append(m, a) : m \in AckMapsOver(c, config, n - 1),
                         a \in AcksOf(c, config, n)}

(* The ack maps a recomputation of contract c under config can find.       *)
AckMaps(c, config) == AckMapsOver(c, config, Cardinality(Servers))

(***************************************************************************)
(* The leader's loop for one region.  The leader holds the contract it     *)
(* published last.  A recomputation reads the configuration and the acks   *)
(* for that contract and calls calculate_contract(); the result is then    *)
(* published and replaces the old contract.  The call is that of           *)
(* leader.cc, and it is given the published contract itself: old_c is a    *)
(* reference (line 15), so the assignment of line 221 changes the branch   *)
(* of the contract the leader holds until the result is published.         *)
(* Holding and publishing a contract are the leader's part, of which       *)
(* leader.cc has no statement (pump_contracts() leaves new_contracts_out   *)
(* empty), and follow the specification of the leader.                     *)
(***************************************************************************)
VARIABLES
    contract,   \* the contract published for the region
    call        \* None, or the call of calculate_contract() that ended

vars == <<contract, call>>

Init ==
    /\ contract \in {SeedContract(cfg) : cfg \in Configs}
    /\ call = None

(* One recomputation: calculate_contract() on the published contract, with *)
(* the configuration and the acks for that contract as they are now.  The  *)
(* frame keeps the contract as it was passed; the contract itself is left  *)
(* as the call leaves it.                                                  *)
Recompute ==
    /\ call = None
    /\ \E cfg \in Configs : \E acks \in AckMaps(contract, cfg) :
        LET ended == CalculateContractCall(contract, cfg, acks)
        IN /\ call' = Some([old_c |-> contract,
                               config |-> cfg,
                               acks |-> acks,
                               new_c |-> ended.returned,
                               maker_calls |-> ended.maker_calls])
           /\ contract' = ended.old_c

(* A call has ended by returning a contract.                               *)
CallReturned == call # None /\ ~Threw(Get(call).new_c)

(* The contract the call returned is published in place of the old one.    *)
(* The model stops at a contract whose branch is more than MaxBranchDepth  *)
(* branches away from the root, or starts at MaxTimestamp, the last        *)
(* timestamp of the model.                                                 *)
Publish ==
    /\ CallReturned
    /\ Len(Get(call).new_c.branch) <= MaxBranchDepth
    /\ BranchOrigin(Get(call).new_c.branch) < MaxTimestamp
    /\ contract' = Get(call).new_c
    /\ call' = None

(* The call ended with an exception: there is no contract to publish, the  *)
(* old one stays.                                                          *)
Unwind ==
    /\ call # None
    /\ Threw(Get(call).new_c)
    /\ call' = None
    /\ UNCHANGED contract

Next == Recompute \/ Publish \/ Unwind

Spec == Init /\ [][Next]_vars

(***************************************************************************)
(* Properties of calculate_contract().  In a state where a call has ended, *)
(* Get(call) holds its arguments and its outcome: new_c is the contract it *)
(* returned, or the exception it threw.  The properties of the new         *)
(* contract are those of the calls that returned one.                      *)
(***************************************************************************)
TypeOK ==
    /\ contract.replicas \subseteq Servers
    /\ contract.voters \subseteq Servers
    /\ call # None =>
        /\ Get(call).old_c =
                [contract EXCEPT !.branch = Get(call).old_c.branch]
        /\ Get(call).config \in Configs
        /\ \A s \in Servers : Get(call).acks[s].state \in AckStates
        /\ Threw(Get(call).new_c) => Get(call).maker_calls = 0

(* The voters of contract c whose ack is secondary_need_primary.           *)
NeedPrimary(c, acks) ==
    {s \in c.voters : acks[s].state = "secondary_need_primary"}

(* The timestamp of server s's acked version on the branch of contract c.  *)
ProjectedTimestamp(c, acks, s) ==
    version_project_to_branch(Get(acks[s].version), c.branch)

(* The call elected a primary.                                             *)
Elected(f) == f.old_c.primary = None /\ f.new_c.primary # None

(* C1.  Election quorum: when the old contract has no primary, the new     *)
(* contract has one only if at least floor(|voters|/2) + 1 voters acked    *)
(* secondary_need_primary for the old contract.                            *)
C1_ElectionQuorum ==
    CallReturned =>
        LET f == Get(call)
        IN Elected(f) =>
            Cardinality(NeedPrimary(f.old_c, f.acks))
                >= Cardinality(f.old_c.voters) \div 2 + 1

(* A primary is elected among three voters of which exactly two need a     *)
(* primary.                                                                *)
C1_Witness ==
    /\ CallReturned
    /\ Elected(Get(call))
    /\ Cardinality(Get(call).old_c.voters) = 3
    /\ Cardinality(NeedPrimary(Get(call).old_c, Get(call).acks)) = 2

(* C2.  The elected primary is a voter that acked secondary_need_primary,  *)
(* its projected timestamp is at least that of strictly more than half of  *)
(* |voters| voters (itself included), and so every majority of the voters  *)
(* holds a voter whose projected timestamp it reaches.                     *)
C2_ElectedCarriesMajority ==
    CallReturned =>
        LET f == Get(call)
            p == Get(f.new_c.primary).server
            behind == {s \in NeedPrimary(f.old_c, f.acks) :
                        ProjectedTimestamp(f.old_c, f.acks, s)
                            <= ProjectedTimestamp(f.old_c, f.acks, p)}
        IN Elected(f) =>
            /\ p \in NeedPrimary(f.old_c, f.acks)
            /\ 2 * Cardinality(behind) > Cardinality(f.old_c.voters)
            /\ \A M \in SUBSET f.old_c.voters :
                2 * Cardinality(M) > Cardinality(f.old_c.voters) =>
                    M \cap behind # {}

(* A primary is elected on a branch other than the root while some voter   *)
(* reports a later timestamp than the elected one on an ancestor branch,   *)
(* past the point where the contract's branch started.                     *)
C2_Witness ==
    /\ CallReturned
    /\ Elected(Get(call))
    /\ Get(call).old_c.branch # RootBranch
    /\ \E s \in NeedPrimary(Get(call).old_c, Get(call).acks) :
        LET f == Get(call)
            p == Get(f.new_c.primary).server
        IN /\ s # p
           /\ Get(f.acks[s].version).branch # f.old_c.branch
           /\ Get(f.acks[s].version).timestamp
                > ProjectedTimestamp(f.old_c, f.acks, s)
           /\ Get(f.acks[s].version).timestamp
                > ProjectedTimestamp(f.old_c, f.acks, p)

(* C3.  A voter change is two-phase and never torn down: with temp_voters  *)
(* = T in the old contract, the new contract either keeps voters and       *)
(* temp_voters, or has voters = T and no temp_voters, the latter exactly   *)
(* when the old contract has a primary whose ack is primary_ready; without *)
(* temp_voters in the old contract, voters does not change.                *)
C3_VoterChangeTwoPhase ==
    CallReturned =>
        LET f == Get(call)
            ready == /\ f.old_c.primary # None
                     /\ f.acks[Get(f.old_c.primary).server].state
                            = "primary_ready"
            kept == /\ f.new_c.voters = f.old_c.voters
                    /\ f.new_c.temp_voters = f.old_c.temp_voters
            committed == /\ f.new_c.voters = Get(f.old_c.temp_voters)
                         /\ f.new_c.temp_voters = None
        IN IF f.old_c.temp_voters # None
             THEN /\ kept \/ committed
                  /\ committed <=> ready
             ELSE f.new_c.voters = f.old_c.voters

(* A voter change is committed although the configuration has moved on to  *)
(* another replica set than temp_voters.                                   *)
C3_Witness ==
    /\ CallReturned
    /\ Get(call).old_c.temp_voters # None
    /\ Get(call).old_c.temp_voters # Some(Get(call).config.replicas)
    /\ Get(call).new_c.temp_voters = None
    /\ Get(call).new_c.voters = Get(Get(call).old_c.temp_voters)
    /\ Get(call).new_c.voters # Get(call).old_c.voters

(* The servers of config.replicas that ack secondary_streaming or are the  *)
(* primary of the old contract.                                            *)
StreamingOrPrimary(f) ==
    {s \in f.config.replicas :
        \/ f.acks[s].state = "secondary_streaming"
        \/ f.old_c.primary # None /\ Get(f.old_c.primary).server = s}

(* The call set temp_voters.                                               *)
Initiated(f) == f.old_c.temp_voters = None /\ f.new_c.temp_voters # None

(* C4.  Quorum gate: temp_voters goes from absent to present only when     *)
(* voters # config.replicas and strictly more than half of config.replicas *)
(* ack secondary_streaming or are the primary; it is then config.replicas. *)
C4_QuorumGate ==
    CallReturned =>
        LET f == Get(call)
        IN Initiated(f) =>
            /\ f.old_c.voters # f.config.replicas
            /\ 2 * Cardinality(StreamingOrPrimary(f))
                    > Cardinality(f.config.replicas)
            /\ f.new_c.temp_voters = Some(f.config.replicas)

(* A change to a two-server replica set is initiated with both of them     *)
(* counted, one of them a replica that is not yet a voter.                 *)
C4_Witness ==
    /\ CallReturned
    /\ Initiated(Get(call))
    /\ Cardinality(Get(call).config.replicas) = 2
    /\ Cardinality(StreamingOrPrimary(Get(call))) = 2
    /\ Get(call).config.replicas \ Get(call).old_c.voters # {}

(* C5.  Two-phase exclusivity: a call does not both set temp_voters and    *)
(* change voters, temp_voters that is cleared is not set again in the same *)
(* call, and voters changes only to the temp_voters of the published       *)
(* contract.                                                               *)
C5_TwoPhaseExclusive ==
    CallReturned =>
        LET f == Get(call)
        IN /\ f.old_c.voters = contract.voters
           /\ f.old_c.temp_voters = contract.temp_voters
           /\ Initiated(f) => f.new_c.voters = f.old_c.voters
           /\ f.old_c.temp_voters # None =>
                f.new_c.temp_voters \in {None, f.old_c.temp_voters}
           /\ f.new_c.voters # f.old_c.voters =>
                contract.temp_voters = Some(f.new_c.voters)

(* A voter change is committed while voters of the result differ from      *)
(* config.replicas and a majority of config.replicas is streaming: the     *)
(* call could start the next change, and does not.                         *)
C5_Witness ==
    /\ CallReturned
    /\ Get(call).new_c.voters # Get(call).old_c.voters
    /\ Get(call).new_c.voters # Get(call).config.replicas
    /\ 2 * Cardinality(StreamingOrPrimary(Get(call)))
            > Cardinality(Get(call).config.replicas)
    /\ Get(call).new_c.temp_voters = None

(* Server a comes before server b in the order (projected timestamp,       *)
(* server id) of the candidates of call f.                                 *)
CandidateBefore(f, a, b) ==
    LET ta == ProjectedTimestamp(f.old_c, f.acks, a)
        tb == ProjectedTimestamp(f.old_c, f.acks, b)
    IN ta < tb \/ (ta = tb /\ a < b)

(* The 0-based index of candidate s in that order.                         *)
CandidateIndex(f, s) ==
    Cardinality({t \in NeedPrimary(f.old_c, f.acks) : CandidateBefore(f, t, s)})

(* The candidates at index >= floor(|voters|/2).                           *)
Eligible(f) ==
    {s \in NeedPrimary(f.old_c, f.acks) :
        CandidateIndex(f, s) >= Cardinality(f.old_c.voters) \div 2}

(* C6.  Primary preference and tie-break: with no primary in the old       *)
(* contract, a primary is elected exactly when some candidate is eligible; *)
(* it is config.primary_replica if that is eligible, and otherwise the     *)
(* last candidate in the order (timestamp, server id).                     *)
C6_PrimaryPreference ==
    CallReturned =>
        LET f == Get(call)
        IN f.old_c.primary = None =>
            LET eligible == Eligible(f)
                candidates == NeedPrimary(f.old_c, f.acks)
                last == CHOOSE s \in candidates :
                            CandidateIndex(f, s) = Cardinality(candidates) - 1
            IN IF eligible = {}
                THEN f.new_c.primary = None
                ELSE /\ f.new_c.primary # None
                     /\ Get(f.new_c.primary).server =
                            IF f.config.primary_replica \in eligible
                                THEN f.config.primary_replica
                                ELSE last

(* config.primary_replica is elected although another candidate has a      *)
(* greater projected timestamp.                                            *)
C6_Witness ==
    /\ CallReturned
    /\ Elected(Get(call))
    /\ Get(Get(call).new_c.primary).server = Get(call).config.primary_replica
    /\ \E s \in NeedPrimary(Get(call).old_c, Get(call).acks) :
        ProjectedTimestamp(Get(call).old_c, Get(call).acks, s)
            > ProjectedTimestamp(Get(call).old_c, Get(call).acks,
                                 Get(call).config.primary_replica)

(* The primary of the old contract of call f is marked for removal: it is  *)
(* in neither config.replicas, voters nor temp_voters.                     *)
PrimaryMarked(f) ==
    LET p == Get(f.old_c.primary).server
    IN /\ p \notin f.config.replicas
       /\ p \notin f.old_c.voters
       /\ f.old_c.temp_voters # None => p \notin Get(f.old_c.temp_voters)

(* More than half of the voters of the new contract need a primary.        *)
FailoverDue(f) ==
    2 * Cardinality(NeedPrimary(f.new_c, f.acks)) > Cardinality(f.new_c.voters)

(* The old contract of call f has a primary that is neither marked for     *)
(* removal nor subject to auto-failover.                                   *)
PrimaryStays(f) ==
    f.old_c.primary # None /\ ~PrimaryMarked(f) /\ ~FailoverDue(f)

(* The primary of the old contract asked for hand-over to d has acked      *)
(* primary_ready.                                                          *)
HandedOver(f, d) ==
    /\ Get(f.old_c.primary).hand_over = Some(d)
    /\ f.acks[Get(f.old_c.primary).server].state = "primary_ready"

(* C7.  Hand-over takes two acknowledged steps: for a primary P that       *)
(* stays, with D = config.primary_replica # P streaming, the primary is    *)
(* dropped only if the published contract has hand_over = D and P acked    *)
(* primary_ready, and is otherwise kept with hand_over = D; if D = P or D  *)
(* is not streaming, P is kept with hand_over cleared.                     *)
C7_HandOverTwoSteps ==
    CallReturned =>
        LET f == Get(call)
            old_p == Get(f.old_c.primary)
            d == f.config.primary_replica
        IN PrimaryStays(f) =>
            IF d # old_p.server /\ f.acks[d].state = "secondary_streaming"
                THEN /\ f.new_c.primary = None =>
                            HandedOver(f, d) /\ f.old_c = contract
                     /\ f.new_c.primary # None =>
                            f.new_c.primary =
                                Some([old_p EXCEPT !.hand_over = Some(d)])
                     /\ ~HandedOver(f, d) => f.new_c.primary # None
                ELSE f.new_c.primary =
                        Some([old_p EXCEPT !.hand_over = None])

(* The primary is dropped at the end of a hand-over.                       *)
C7_Witness ==
    /\ CallReturned
    /\ PrimaryStays(Get(call))
    /\ Get(call).config.primary_replica # Get(Get(call).old_c.primary).server
    /\ Get(call).acks[Get(call).config.primary_replica].state
            = "secondary_streaming"
    /\ HandedOver(Get(call), Get(call).config.primary_replica)
    /\ Get(call).new_c.primary = None

(* C8.  Replica removal: a server of old.replicas is absent from           *)
(* new.replicas exactly when it is in neither config.replicas, voters nor  *)
(* temp_voters and is not the primary; a primary that is in none of them   *)
(* stays in replicas while the primary becomes none, and the following     *)
(* recomputation, with the same configuration, removes it from replicas:   *)
(* in the new contract it is again in none of config.replicas, voters and  *)
(* temp_voters, and no longer the primary, so that the first part, which   *)
(* holds of the following call as of every call that returns a contract,   *)
(* has it removed.                                                         *)
C8_ReplicaRemoval ==
    CallReturned =>
        LET f == Get(call)
            unused(s) ==
                /\ s \notin f.config.replicas
                /\ s \notin f.old_c.voters
                /\ f.old_c.temp_voters # None => s \notin Get(f.old_c.temp_voters)
            primary(s) ==
                f.old_c.primary # None /\ Get(f.old_c.primary).server = s
        IN \A s \in f.old_c.replicas :
            /\ s \notin f.new_c.replicas <=> (unused(s) /\ ~primary(s))
            /\ (unused(s) /\ primary(s)) =>
                /\ s \in f.new_c.replicas
                /\ f.new_c.primary = None
                /\ s \notin f.new_c.voters
                /\ f.new_c.temp_voters # None =>
                        s \notin Get(f.new_c.temp_voters)

(* The primary is in none of config.replicas, voters and temp_voters, and  *)
(* the call drops the primary and keeps the server as a replica.           *)
C8_Witness ==
    /\ CallReturned
    /\ Get(call).old_c.primary # None
    /\ PrimaryMarked(Get(call))
    /\ Get(call).new_c.primary = None
    /\ Get(Get(call).old_c.primary).server \in Get(call).new_c.replicas

(* C9.  After every recomputation config.replicas is a subset of           *)
(* new.replicas, and new.replicas a subset of old.replicas \cup            *)
(* config.replicas.                                                        *)
C9_ReplicasGrow ==
    CallReturned =>
        LET f == Get(call)
        IN /\ f.config.replicas \subseteq f.new_c.replicas
           /\ f.new_c.replicas \subseteq f.old_c.replicas \cup f.config.replicas

(* A call both adds a server of config.replicas to replicas and removes    *)
(* another.                                                                *)
C9_Witness ==
    /\ CallReturned
    /\ Get(call).new_c.replicas \ Get(call).old_c.replicas # {}
    /\ Get(call).old_c.replicas \ Get(call).new_c.replicas # {}

(* C10.  Branch re-registration: when the primary is unchanged and its ack *)
(* for the old contract is primary_need_branch with branch id B, the       *)
(* returned contract has branch = B and branch_maker is not called.        *)
C10_BranchReRegistration ==
    CallReturned =>
        LET f == Get(call)
            p == Get(f.old_c.primary).server
        IN (/\ f.old_c.primary # None
            /\ f.new_c.primary # None
            /\ Get(f.new_c.primary).server = p
            /\ f.acks[p].state = "primary_need_branch") =>
                /\ f.new_c.branch = Get(f.acks[p].branch)
                /\ f.maker_calls = 0

(***************************************************************************)
(* C11.  Branch allocation.                                                *)
(***************************************************************************)

(* An unchanged primary acked primary_need_branch for the old contract.    *)
UnchangedPrimaryAsksBranch(f) ==
    /\ f.old_c.primary # None
    /\ f.new_c.primary # None
    /\ Get(f.new_c.primary).server = Get(f.old_c.primary).server
    /\ f.acks[Get(f.old_c.primary).server].state = "primary_need_branch"

(* C11.  The branch of the new contract differs from the branch of the     *)
(* old one only when a primary is elected in this call or an unchanged     *)
(* primary acked primary_need_branch; an election makes exactly one call   *)
(* of branch_maker, with the elected server and the version it acked, and  *)
(* its result is the new branch; every other call makes no call of         *)
(* branch_maker, so there is at most one per recomputation.                *)
C11_BranchOnlyOnRequest ==
    CallReturned =>
        LET f == Get(call)
        IN /\ f.maker_calls <= 1
           /\ Elected(f) =>
                /\ f.maker_calls = 1
                /\ f.new_c.branch =
                     branch_maker(Get(f.new_c.primary).server,
                         Get(f.acks[Get(f.new_c.primary).server].version))
           /\ ~Elected(f) => f.maker_calls = 0
           /\ f.new_c.branch # f.old_c.branch =>
                Elected(f) \/ UnchangedPrimaryAsksBranch(f)
           /\ (~Elected(f) /\ ~UnchangedPrimaryAsksBranch(f)) =>
                f.new_c.branch = f.old_c.branch

(* A primary is elected on a version that is not at the top of its         *)
(* branch's timestamps, and the contract moves to the branch made for it.  *)
C11_Witness ==
    /\ CallReturned
    /\ Elected(Get(call))
    /\ Get(call).maker_calls = 1
    /\ Get(call).new_c.branch # Get(call).old_c.branch
    /\ Get(Get(call).acks[Get(Get(call).new_c.primary).server].version)
         .timestamp < MaxTimestamp

(***************************************************************************)
(* C12.  Auto-failover.                                                    *)
(***************************************************************************)

(* The new contract of call f keeps the server of the old primary.         *)
PrimaryServerKept(f) ==
    /\ f.new_c.primary # None
    /\ Get(f.new_c.primary).server = Get(f.old_c.primary).server

(* The call completes a hand-over: config.primary_replica is another       *)
(* server, it streams, the old contract asked for the hand-over to it and  *)
(* the primary acked primary_ready.                                        *)
HandOverCompletes(f) ==
    /\ f.config.primary_replica # Get(f.old_c.primary).server
    /\ f.acks[f.config.primary_replica].state = "secondary_streaming"
    /\ HandedOver(f, f.config.primary_replica)

(* C12 as stated.  When the old contract has a primary and more than half  *)
(* of the voters of the new contract acked secondary_need_primary, the new *)
(* contract has no primary; with at most half such acks and no removal     *)
(* mark the primary server is kept.                                        *)
C12_AutoFailoverOrKept ==
    CallReturned =>
        LET f == Get(call)
        IN f.old_c.primary # None =>
            /\ FailoverDue(f) => f.new_c.primary = None
            /\ (~FailoverDue(f) /\ ~PrimaryMarked(f)) => PrimaryServerKept(f)

(* C12, amended.  When the old contract has a primary and more than half   *)
(* of the voters of the new contract acked secondary_need_primary, the new *)
(* contract has no primary, whatever the configuration and the hand-over   *)
(* state; with at most half such acks and no removal mark the primary      *)
(* server is kept unless the call completes a hand-over, in which case     *)
(* the new contract has no primary.                                        *)
C12_AutoFailover ==
    CallReturned =>
        LET f == Get(call)
        IN f.old_c.primary # None =>
            /\ FailoverDue(f) => f.new_c.primary = None
            /\ (~FailoverDue(f) /\ ~PrimaryMarked(f)) =>
                 IF HandOverCompletes(f)
                    THEN f.new_c.primary = None
                    ELSE PrimaryServerKept(f)

(* Auto-failover removes a primary that is a configured replica and has a  *)
(* hand-over in progress, in a call that also commits a voter change.      *)
C12_Witness ==
    /\ CallReturned
    /\ Get(call).old_c.primary # None
    /\ Get(Get(call).old_c.primary).server \in Get(call).config.replicas
    /\ Get(Get(call).old_c.primary).hand_over # None
    /\ Get(call).new_c.voters # Get(call).old_c.voters
    /\ FailoverDue(Get(call))
    /\ Get(call).new_c.primary = None

(***************************************************************************)
(* C13.  The settled contract is a fixed point.                            *)
(***************************************************************************)

(* The old contract of call f is what the configuration asks for and the   *)
(* acks are a steady state.                                                *)
Settled(f) ==
    /\ f.old_c.replicas = f.config.replicas
    /\ f.old_c.voters = f.config.replicas
    /\ f.old_c.temp_voters = None
    /\ f.old_c.primary # None
    /\ Get(f.old_c.primary).server = f.config.primary_replica
    /\ Get(f.old_c.primary).hand_over = None
    /\ f.acks[f.config.primary_replica].state # "primary_need_branch"
    /\ 2 * Cardinality(NeedPrimary(f.old_c, f.acks))
            <= Cardinality(f.old_c.voters)

(* C13.  When the old contract has replicas = voters = config.replicas,    *)
(* no temp_voters, primary.server = config.primary_replica without         *)
(* hand_over, and the primary does not ask for a branch while at most half *)
(* of the voters need a primary, calculate_contract returns the old        *)
(* contract unchanged in every field, makes no branch, and returns it      *)
(* again when called on its own result with the same inputs.               *)
C13_FixedPoint ==
    CallReturned =>
        LET f == Get(call)
        IN Settled(f) =>
            /\ f.new_c = f.old_c
            /\ f.maker_calls = 0
            /\ calculate_contract(f.new_c, f.config, f.acks) = f.new_c

(* A settled contract with three voters is recomputed while its primary    *)
(* is ready, one secondary streams and the other needs a primary.          *)
C13_Witness ==
    /\ CallReturned
    /\ Settled(Get(call))
    /\ Cardinality(Get(call).old_c.voters) = 3
    /\ Cardinality(NeedPrimary(Get(call).old_c, Get(call).acks)) = 1
    /\ \E s \in Get(call).old_c.voters :
            Get(call).acks[s].state = "secondary_streaming"
    /\ Get(call).acks[Get(call).config.primary_replica].state
            = "primary_ready"

(***************************************************************************)
(* C14.  Election when config.primary_replica is not eligible.             *)
(***************************************************************************)

(* The old contract of call f has no primary and config.primary_replica    *)
(* is not an eligible candidate.                                           *)
PreferredNotEligible(f) ==
    f.old_c.primary = None /\ f.config.primary_replica \notin Eligible(f)

(* C14 as stated.  When the old contract has no primary and                *)
(* config.primary_replica is not an eligible candidate, the new contract   *)
(* has no primary.                                                         *)
C14_NoPromotionWithoutPreferred ==
    CallReturned =>
        LET f == Get(call)
        IN PreferredNotEligible(f) => f.new_c.primary = None

(* C14, amended.  When the old contract has no primary and                 *)
(* config.primary_replica is not an eligible candidate, the new contract   *)
(* has no primary only if no candidate at all is eligible; otherwise the   *)
(* eligible candidate that is last in the order (timestamp, server id) is  *)
(* promoted.                                                               *)
C14_PromotionWithoutPreferred ==
    CallReturned =>
        LET f == Get(call)
        IN f.old_c.primary = None =>
            LET eligible == Eligible(f)
            IN f.config.primary_replica \notin eligible =>
                /\ f.new_c.primary = None <=> eligible = {}
                /\ f.new_c.primary # None =>
                    LET p == Get(f.new_c.primary).server
                    IN /\ p \in eligible
                       /\ p # f.config.primary_replica
                       /\ \A t \in NeedPrimary(f.old_c, f.acks) \ {p} :
                            CandidateBefore(f, t, p)

(* config.primary_replica is a candidate with too old a version to be      *)
(* eligible, and another voter is promoted.                                *)
C14_Witness ==
    /\ CallReturned
    /\ PreferredNotEligible(Get(call))
    /\ Get(call).config.primary_replica
            \in NeedPrimary(Get(call).old_c, Get(call).acks)
    /\ Get(call).new_c.primary # None
    /\ \E t \in Timestamps :
            /\ ProjectedTimestamp(Get(call).old_c, Get(call).acks,
                    Get(call).config.primary_replica) < t
            /\ ProjectedTimestamp(Get(call).old_c, Get(call).acks,
                    Get(Get(call).new_c.primary).server) = t

(***************************************************************************)
(* C15.  When a voter change is initiated.                                 *)
(***************************************************************************)

(* The servers of config.replicas that stream or are the primary of the    *)
(* old contract, whether or not they acked the old contract.               *)
StreamingOrPrimaryByRole(f) ==
    {s \in f.config.replicas :
        \/ f.acks[s].state = "secondary_streaming"
        \/ IsPrimaryOf(f.old_c, s)}

(* The old contract of call f has no voter change in progress and its      *)
(* voters differ from config.replicas.                                     *)
VoterChangeWanted(f) ==
    f.old_c.temp_voters = None /\ f.old_c.voters # f.config.replicas

(* C15 as stated.  When the old contract has no temp_voters, its voters    *)
(* differ from config.replicas and more than half of config.replicas       *)
(* stream or are the primary of the old contract, the primary counting by  *)
(* being the primary alone, the new contract has temp_voters =             *)
(* config.replicas.                                                        *)
C15_InitiateCountsPrimaryByRole ==
    CallReturned =>
        LET f == Get(call)
        IN (/\ VoterChangeWanted(f)
            /\ 2 * Cardinality(StreamingOrPrimaryByRole(f))
                    > Cardinality(f.config.replicas))
            => f.new_c.temp_voters = Some(f.config.replicas)

(* C15, amended.  When the old contract has no temp_voters, its voters     *)
(* differ from config.replicas and more than half of config.replicas       *)
(* have acked the old contract and either stream or are its primary, the   *)
(* new contract has temp_voters = config.replicas; a primary that has not  *)
(* acked the old contract does not count.                                  *)
C15_InitiateCountsAckedPrimary ==
    CallReturned =>
        LET f == Get(call)
        IN (/\ VoterChangeWanted(f)
            /\ 2 * Cardinality({s \in StreamingOrPrimaryByRole(f) :
                                    f.acks[s].state # "no_ack"})
                    > Cardinality(f.config.replicas))
            => f.new_c.temp_voters = Some(f.config.replicas)

(* A voter change to three replicas is initiated with one of them          *)
(* streaming and the acked primary making up the majority.                 *)
C15_Witness ==
    /\ CallReturned
    /\ VoterChangeWanted(Get(call))
    /\ Cardinality(Get(call).config.replicas) = 3
    /\ Get(call).old_c.primary # None
    /\ Get(Get(call).old_c.primary).server \in Get(call).config.replicas
    /\ Get(call).acks[Get(Get(call).old_c.primary).server].state # "no_ack"
    /\ Cardinality({s \in Get(call).config.replicas :
            Get(call).acks[s].state = "secondary_streaming"}) = 1
    /\ Get(call).new_c.temp_voters = Some(Get(call).config.replicas)

(***************************************************************************)
(* leader_t::pump_contracts, lines 227-249: the split points.              *)
(***************************************************************************)

(* The keys run from 0 to MaxKey - 1; MaxKey stands for the end of the key *)
(* space.                                                                  *)
MaxKey == 3

Keys == 0 .. MaxKey - 1

(* The branches of the branch history handed to pump_contracts.            *)
PumpBranches == {1, 2}

(* The regions [left, right) cut out of the key space from Min(lefts) on   *)
(* by the left boundaries lefts.                                           *)
RegionsFrom(lefts) ==
    {[left |-> l,
      right |-> IF \E k \in lefts : k > l
                   THEN CHOOSE k \in lefts :
                            k > l /\ \A j \in lefts : j > l => k <= j
                   ELSE MaxKey] : l \in lefts}

(* The region maps that cover the whole key space.                         *)
KeySpaceCovers == {RegionsFrom(lefts) : lefts \in {L \in SUBSET Keys : 0 \in L}}

(* The region maps that cover the key space from some key on: the origin   *)
(* of a branch.                                                            *)
Origins == {RegionsFrom(lefts) : lefts \in (SUBSET Keys) \ {{}}}

(* Lines 237-245: the split points.  Only the loop over the branch         *)
(* history inserts keys; the loop over old_state.contracts has an empty    *)
(* body and the table configuration is not read.                           *)
SplitPoints(branch_history, old_state, table_config) ==
    UNION {{region.left : region \in branch_history[b].origin} :
                b \in DOMAIN branch_history}

(* The two steps of a run of pump_contracts: the call computes the split   *)
(* points of its inputs, then returns.                                     *)
PumpContracts ==
    /\ call = None
    /\ \E shards \in KeySpaceCovers, regions \in KeySpaceCovers,
          origins \in [PumpBranches -> Origins] :
        LET branch_history == [b \in PumpBranches |-> [origin |-> origins[b]]]
            old_state == [contracts |-> [r \in regions |-> contract]]
        IN call' = Some([table_config |-> shards,
                         old_state |-> old_state,
                         branch_history |-> branch_history,
                         split_points |->
                            SplitPoints(branch_history, old_state, shards)])
    /\ UNCHANGED contract

PumpReturn ==
    /\ call # None
    /\ call' = None
    /\ UNCHANGED contract

InitPump ==
    /\ contract \in {SeedContract(cfg) : cfg \in Configs}
    /\ call = None

NextPump == PumpContracts \/ PumpReturn

SpecPump == InitPump /\ [][NextPump]_vars

(***************************************************************************)
(* C16.  The split points of pump_contracts.                               *)
(***************************************************************************)

(* The left boundaries of a set of regions.                                *)
Boundaries(regions) == {region.left : region \in regions}

(* C16.  The split points computed by pump_contracts are exactly the       *)
(* boundaries of the shard configurations, of the regions of the old       *)
(* contracts and of the origin regions of the branch history, so that no   *)
(* boundary of any of the three lies strictly inside a chunk between two   *)
(* consecutive split points.                                               *)
C16_SplitPointsAreUnion ==
    call # None =>
        LET f == Get(call)
        IN f.split_points =
            Boundaries(f.table_config)
                \cup Boundaries(DOMAIN f.old_state.contracts)
                \cup UNION {Boundaries(f.branch_history[b].origin) :
                                b \in DOMAIN f.branch_history}

(***************************************************************************)
(* C17.  No direct switch of the primary.                                  *)
(***************************************************************************)

(* C17.  A recomputation never replaces a primary by another server: when  *)
(* the old contract, which is the published one, has primary P, the new    *)
(* contract has primary P or none, and a primary is elected only when the  *)
(* published contract has none; so two published contracts with different  *)
(* primaries are separated by a published contract without primary.        *)
C17_NoDirectSwitch ==
    CallReturned =>
        LET f == Get(call)
        IN /\ f.old_c.primary = contract.primary
           /\ (f.old_c.primary # None /\ f.new_c.primary # None) =>
                Get(f.new_c.primary).server = Get(f.old_c.primary).server
           /\ (f.new_c.primary # None /\ contract.primary # None) =>
                Get(f.new_c.primary).server = Get(contract.primary).server

(* The configuration names another, streaming server as primary_replica,   *)
(* the hand-over to it was already requested, and the new contract still   *)
(* has the old server as its primary.                                      *)
C17_Witness ==
    /\ CallReturned
    /\ Get(call).old_c.primary # None
    /\ Get(call).new_c.primary # None
    /\ Get(call).config.primary_replica # Get(Get(call).old_c.primary).server
    /\ Get(call).acks[Get(call).config.primary_replica].state
            = "secondary_streaming"
    /\ Get(Get(call).old_c.primary).hand_over
            = Some(Get(call).config.primary_replica)
    /\ Get(Get(call).new_c.primary).server
            = Get(Get(call).old_c.primary).server

(***************************************************************************)
(* C18.  Warm shutdown.                                                    *)
(***************************************************************************)

(* The old contract of call f has a primary that the configuration wants   *)
(* replaced: config.primary_replica is another server and streams, or the  *)
(* primary is not a replica of the configuration any more.                 *)
PrimaryToBeReplaced(f) ==
    /\ f.old_c.primary # None
    /\ \/ /\ f.config.primary_replica # Get(f.old_c.primary).server
          /\ f.acks[f.config.primary_replica].state = "secondary_streaming"
       \/ Get(f.old_c.primary).server \notin f.config.replicas

(* C18.  A primary that is to be replaced and is not cut off from the      *)
(* voters (no auto-failover) is first told to shut down warmly: the new    *)
(* contract keeps it with warm_shutdown = true; it is removed only by a    *)
(* later call, whose old contract has warm_shutdown = true and was acked   *)
(* by the primary.                                                         *)
C18_WarmShutdownFirst ==
    CallReturned =>
        LET f == Get(call)
        IN (PrimaryToBeReplaced(f) /\ ~FailoverDue(f)) =>
            IF Get(f.old_c.primary).warm_shutdown
                    /\ HasAck(f.acks, Get(f.old_c.primary).server)
                THEN TRUE
                ELSE /\ f.new_c.primary # None
                     /\ Get(f.new_c.primary).server
                            = Get(f.old_c.primary).server
                     /\ Get(f.new_c.primary).warm_shutdown

(***************************************************************************)
(* C19.  Membership containment.                                           *)
(***************************************************************************)

(* The voters, temp voters and primary of contract c are replicas of it.   *)
Contained(c) ==
    /\ c.voters \subseteq c.replicas
    /\ c.temp_voters # None => Get(c.temp_voters) \subseteq c.replicas
    /\ c.primary # None => Get(c.primary).server \in c.replicas

(* C19.  Every published contract and every contract computed from one     *)
(* has its voters, its temp voters and its primary among its replicas; no  *)
(* call removes from the replicas a server that the old contract has as    *)
(* voter, temp voter or primary; an elected primary is a voter of the new  *)
(* contract.                                                               *)
C19_MembershipContained ==
    /\ Contained(contract)
    /\ CallReturned =>
        LET f == Get(call)
        IN /\ Contained(f.new_c)
           /\ \A s \in f.old_c.replicas \ f.new_c.replicas :
                /\ s \notin f.old_c.voters
                /\ f.old_c.temp_voters # None =>
                        s \notin Get(f.old_c.temp_voters)
                /\ ~IsPrimaryOf(f.old_c, s)
           /\ Elected(f) => Get(f.new_c.primary).server \in f.new_c.voters

(* A call commits a voter change, removes a replica that stopped being a   *)
(* voter earlier, and keeps as replica an old voter that the new voter     *)
(* set leaves out.                                                         *)
C19_Witness ==
    /\ CallReturned
    /\ Get(call).old_c.temp_voters # None
    /\ Get(call).new_c.voters = Get(Get(call).old_c.temp_voters)
    /\ Get(call).old_c.replicas \ Get(call).new_c.replicas # {}
    /\ (Get(call).old_c.voters \ Get(call).new_c.voters)
            \cap Get(call).new_c.replicas # {}

(***************************************************************************)
(* Repeated recomputation under a fixed configuration with responsive      *)
(* replicas.                                                               *)
(***************************************************************************)

(* The acks of responsive replicas that all hold the writes up to          *)
(* timestamp t of the contract's branch: with a primary, the primary acks  *)
(* primary_ready and every other replica secondary_streaming; without      *)
(* one, every replica acks secondary_need_primary with that version.       *)
ResponsiveAcks(c, t) ==
    [server \in 1 .. Cardinality(Servers) |->
        IF server \notin c.replicas THEN NoAck
        ELSE IF c.primary = None
            THEN [state |-> "secondary_need_primary",
                  version |-> Some([branch |-> c.branch, timestamp |-> t]),
                  branch |-> None]
        ELSE IF IsPrimaryOf(c, server)
            THEN [NoAck EXCEPT !.state = "primary_ready"]
        ELSE [NoAck EXCEPT !.state = "secondary_streaming"]]

(* A contract without its branch id.                                       *)
StripBranch(c) ==
    [replicas |-> c.replicas, voters |-> c.voters,
     temp_voters |-> c.temp_voters, primary |-> c.primary]

(* The elections recorded by the call frame fr together with the one call  *)
(* fr made, each with the elected server and the contract, up to its       *)
(* branch id, it was elected from.                                         *)
ElectionsUpTo(fr) ==
    fr.elected_from \cup
        IF fr.old_c.primary = None /\ fr.new_c.primary # None
            THEN {[server |-> Get(fr.new_c.primary).server,
                   from |-> StripBranch(fr.old_c)]}
            ELSE {}

(* One recomputation and publication: the configuration, whose primary     *)
(* replica is one of its replicas, is the one of the previous call, the    *)
(* acks are those of responsive replicas for the published contract.  The  *)
(* frame keeps the inputs, the result and the elections made by earlier    *)
(* calls.                                                                  *)
RecomputeResponsive ==
    /\ Len(contract.branch) <= MaxBranchDepth
    /\ \E cfg \in Configs, t \in Timestamps :
        /\ cfg.primary_replica \in cfg.replicas
        /\ call # None => cfg = Get(call).config
        /\ t >= BranchOrigin(contract.branch)
        /\ LET acks == ResponsiveAcks(contract, t)
               new_c == calculate_contract(contract, cfg, acks)
           IN /\ ~Threw(new_c)
              /\ contract' = new_c
              /\ call' = Some([old_c |-> contract, config |-> cfg,
                               acks |-> acks, new_c |-> new_c,
                               maker_calls |->
                                    BranchMakerCalls(contract, cfg, acks),
                               elected_from |->
                                    IF call = None THEN {}
                                    ELSE ElectionsUpTo(Get(call))])

(* The region starts with the contract of a configuration whose primary    *)
(* replica is one of its replicas.                                         *)
InitConverge ==
    /\ contract \in {SeedContract(cfg) :
                        cfg \in {c \in Configs :
                                    c.primary_replica \in c.replicas}}
    /\ call = None

NextConverge == RecomputeResponsive

(* The leader recomputes whenever it can.                                  *)
SpecConverge ==
    InitConverge /\ [][NextConverge]_vars /\ WF_vars(NextConverge)

(***************************************************************************)
(* C20.  Convergence.                                                      *)
(***************************************************************************)

(* C20.  Under a fixed configuration and responsive replicas, repeated     *)
(* recomputation does not come back to electing a server other than        *)
(* config.primary_replica that it already elected from the same contract   *)
(* (up to the branch id): with acks that depend on the contract only,      *)
(* such a second election closes a cycle of elect, hand over, un-elect     *)
(* that never reaches a contract with primary = config.primary_replica.    *)
C20_NoElectionLoop ==
    CallReturned =>
        LET f == Get(call)
        IN (Elected(f)
                /\ Get(f.new_c.primary).server # f.config.primary_replica)
            => [server |-> Get(f.new_c.primary).server,
                from |-> StripBranch(f.old_c)] \notin f.elected_from

====
